---------------------------- MODULE Spec2Model ----------------------------
(***************************************************************************)
(* Bus booking service (FINAL-PYTHON-FAST-API-PROJECT.py): the seat        *)
(* inventory (Bus), the booking ledger (BusBookingSystem) and the request  *)
(* handlers that call them.                                                *)
(*                                                                         *)
(* Spec      every request handler runs to completion before the next one  *)
(*           starts (one action per handler).                              *)
(* ConcSpec  the handlers run on worker threads and their steps interleave *)
(*           (one action per step of create_booking / cancel_booking).     *)
(*                                                                         *)
(* Names are sequences of character codes so that str.lower() is computed. *)
(* The clock counts ticks; strftime('%Y%m%d%H%M%S') keeps whole seconds.   *)
(* Booking._booking_time (a second clock reading that no operation ever    *)
(* reads back except to_response) is not part of the state.                *)
(***************************************************************************)
EXTENDS Integers, Sequences, FiniteSets

\* ------------------------------------------------------------- bounds
\* The ledger holds at most MaxBookings entries: a create that would append
\* one more is not taken.
MaxBookings == 2
\* The clock runs from tick 0 to tick MaxNow.
MaxNow == 2
\* Clock ticks per second of the booking identifier's format.
TicksPerSecond == 2
\* Worker threads of ConcSpec; each serves one request.
NumThreads == 3
\* CatalogSpec: a direct call is not taken when it would leave a bus more than
\* MaxDrift seats outside 0..total_seats.
MaxDrift == 10

\* ------------------------------------------------------ request inputs
\* "Al", "aL", "Bo" as character codes.
NameChoices == { <<65, 108>>, <<97, 76>>, <<66, 111>> }
\* bus_id of a request: two of the three catalog ids and one id that is not
\* in the catalog.
BusIdChoices == {1, 2, 4}
\* seats of a request, within the boundary validation gt=0, le=30.
SeatChoices == {5, 25}
\* seats of a direct call of Bus.reserve_seats / Bus.release_seats, which no
\* validation guards.
DirectSeatChoices == {-5, 0, 5, 25}

\* ------------------------------------------------------------ catalog
DefaultTotalSeats == 30

Bus(bus_id, route, time, fare, total_seats) ==
  [ bus_id |-> bus_id, route |-> route, time |-> time, fare |-> fare,
    total_seats |-> total_seats, available_seats |-> total_seats ]

InitBuses ==
  [ id \in {1, 2, 3} |->
      CASE id = 1 -> Bus(1, "North Nazimabad - Power House", "09:00 AM", 500, DefaultTotalSeats)
        [] id = 2 -> Bus(2, "KDA - Gulshan", "12:00 PM", 700, DefaultTotalSeats)
        [] id = 3 -> Bus(3, "Ayesha Manzil - Bahria", "05:00 PM", 600, DefaultTotalSeats) ]

Min(a, b) == IF a <= b THEN a ELSE b

\* reserve_seats without its availability test.
reserve_seats_unchecked(bus, seats) ==
  [ bus |-> [bus EXCEPT !.available_seats = @ - seats], ok |-> TRUE ]

\* reserve_seats testing the capacity instead of the seats still available.
reserve_seats_by_capacity(bus, seats) ==
  IF seats <= bus.total_seats
    THEN [ bus |-> [bus EXCEPT !.available_seats = @ - seats], ok |-> TRUE ]
    ELSE [ bus |-> bus, ok |-> FALSE ]

\* reserve_seats subtracting from _total_seats instead of _available_seats.
reserve_seats_from_total(bus, seats) ==
  IF seats <= bus.available_seats
    THEN [ bus |-> [bus EXCEPT !.total_seats = @ - seats], ok |-> TRUE ]
    ELSE [ bus |-> bus, ok |-> FALSE ]

\* Bus.reserve_seats: the bus after the call and the value returned.
reserve_seats(bus, seats) ==
  IF seats <= bus.available_seats
    THEN [ bus |-> [bus EXCEPT !.available_seats = @ - seats], ok |-> TRUE ]
    ELSE [ bus |-> bus, ok |-> FALSE ]

\* release_seats giving back every seat of the bus.
release_seats_all(bus, seats) ==
  [bus EXCEPT !.available_seats = bus.total_seats]

\* release_seats without the min().
release_seats_unclamped(bus, seats) ==
  [bus EXCEPT !.available_seats = @ + seats]

\* Bus.release_seats: the bus after the call.
release_seats(bus, seats) ==
  [bus EXCEPT !.available_seats = Min(@ + seats, bus.total_seats)]

\* ------------------------------------------------------------ bookings
\* str.lower() on the letters A-Z.
lower(s) == [ i \in 1..Len(s) |-> IF s[i] \in 65..90 THEN s[i] + 32 ELSE s[i] ]

\* f"BK{datetime.now().strftime('%Y%m%d%H%M%S')}": the clock cut to whole seconds.
booking_id_at(t) == << "BK", t \div TicksPerSecond >>

\* Booking.__init__ taking the fare of one seat as the total fare.
Booking_fare_of_one_seat(name, bus, seats, t) ==
  [ booking_id |-> booking_id_at(t), name |-> name, bus |-> bus.bus_id,
    seats |-> seats, total_fare |-> bus.fare ]

\* Booking.__init__: bus is the catalog key of the Bus object the booking refers to.
Booking(name, bus, seats, t) ==
  [ booking_id |-> booking_id_at(t), name |-> name, bus |-> bus.bus_id,
    seats |-> seats, total_fare |-> seats * bus.fare ]

None == 0

\* get_bus falling back to the first bus for an unknown id.
get_bus_with_default(bs, bus_id) == IF bus_id \in DOMAIN bs THEN bus_id ELSE 1

\* BusBookingSystem.get_bus: the key of the bus, or None.
get_bus(bs, bus_id) == IF bus_id \in DOMAIN bs THEN bus_id ELSE None

RemoveAt(s, i) == SubSeq(s, 1, i - 1) \o SubSeq(s, i + 1, Len(s))

\* first_match scanning the ledger from its end.
last_match(bks, name) ==
  LET hits == { i \in 1..Len(bks) : lower(bks[i].name) = lower(name) }
  IN  IF hits = {} THEN None ELSE CHOOSE i \in hits : \A j \in hits : i >= j

\* The index cancel_booking's loop stops at: the first booking whose name
\* matches, or None when the loop runs off the end.
first_match(bks, name) ==
  LET hits == { i \in 1..Len(bks) : lower(bks[i].name) = lower(name) }
  IN  IF hits = {} THEN None ELSE CHOOSE i \in hits : \A j \in hits : i <= j

\* create_booking putting the new booking at the front of the list.
create_booking_at_front(bs, bks, req, t) ==
  LET id == get_bus(bs, req.bus_id) IN
  IF id = None
    THEN [ buses |-> bs, bookings |-> bks, status |-> 404, exc |-> "HTTPException" ]
    ELSE LET r   == reserve_seats(bs[id], req.seats)
             bs2 == [bs EXCEPT ![id] = r.bus]
         IN  IF ~r.ok
               THEN [ buses |-> bs2, bookings |-> bks, status |-> 400,
                      exc |-> "HTTPException" ]
               ELSE [ buses |-> bs2,
                      bookings |-> << Booking(req.name, r.bus, req.seats, t) >> \o bks,
                      status |-> 200, exc |-> "none" ]

\* BusBookingSystem.create_booking at clock reading t: the state after the call
\* and the status it returns or raises.
create_booking(bs, bks, req, t) ==
  LET id == get_bus(bs, req.bus_id) IN
  IF id = None
    THEN [ buses |-> bs, bookings |-> bks, status |-> 404, exc |-> "HTTPException" ]
    ELSE LET r   == reserve_seats(bs[id], req.seats)
             bs2 == [bs EXCEPT ![id] = r.bus]
         IN  IF ~r.ok
               THEN [ buses |-> bs2, bookings |-> bks, status |-> 400,
                      exc |-> "HTTPException" ]
               ELSE [ buses |-> bs2,
                      bookings |-> Append(bks, Booking(req.name, r.bus, req.seats, t)),
                      status |-> 200, exc |-> "none" ]

\* cancel_booking deleting the booking without releasing its seats.
cancel_booking_no_release(bs, bks, name) ==
  LET i == first_match(bks, name) IN
  IF i = None
    THEN [ buses |-> bs, bookings |-> bks, found |-> FALSE, removed |-> << >> ]
    ELSE [ buses |-> bs, bookings |-> RemoveAt(bks, i), found |-> TRUE,
           removed |-> << bks[i] >> ]

\* cancel_booking releasing the booking's seats on every bus.
cancel_booking_release_everywhere(bs, bks, name) ==
  LET i == first_match(bks, name) IN
  IF i = None
    THEN [ buses |-> bs, bookings |-> bks, found |-> FALSE, removed |-> << >> ]
    ELSE [ buses |-> [ id \in DOMAIN bs |-> release_seats(bs[id], bks[i].seats) ],
           bookings |-> RemoveAt(bks, i), found |-> TRUE, removed |-> << bks[i] >> ]

\* BusBookingSystem.cancel_booking: the state after the call, the value
\* returned and the booking deleted.
cancel_booking(bs, bks, name) ==
  LET i == first_match(bks, name) IN
  IF i = None
    THEN [ buses |-> bs, bookings |-> bks, found |-> FALSE, removed |-> << >> ]
    ELSE [ buses |-> [bs EXCEPT ![bks[i].bus] = release_seats(@, bks[i].seats)],
           bookings |-> RemoveAt(bks, i), found |-> TRUE, removed |-> << bks[i] >> ]

\* Bus.to_response.
Bus_to_response(bus) ==
  [ bus_id |-> bus.bus_id, route |-> bus.route, time |-> bus.time,
    fare |-> bus.fare, seats_available |-> bus.available_seats ]

\* Booking.to_response (without booking_time): the bus fields are read
\* through the booking's reference to its Bus.
Booking_to_response(bs, booking) ==
  [ booking_id |-> booking.booking_id, name |-> booking.name,
    bus_id |-> bs[booking.bus].bus_id, route |-> bs[booking.bus].route,
    time |-> bs[booking.bus].time, seats |-> booking.seats,
    total_fare |-> booking.total_fare ]

\* BusBookingSystem.get_all_buses: the state after the call and the list
\* returned, in the order of the dict's keys.
get_all_buses(bs, bks) ==
  [ buses |-> bs, bookings |-> bks,
    body |-> [ id \in DOMAIN bs |-> Bus_to_response(bs[id]) ] ]

\* get_all_bookings emptying the ledger as it reads it.
get_all_bookings_draining(bs, bks) ==
  [ buses |-> bs, bookings |-> << >>,
    body |-> [ k \in 1..Len(bks) |-> Booking_to_response(bs, bks[k]) ] ]

\* BusBookingSystem.get_all_bookings: the state after the call and the list
\* returned, in ledger order.
get_all_bookings(bs, bks) ==
  [ buses |-> bs, bookings |-> bks,
    body |-> [ k \in 1..Len(bks) |-> Booking_to_response(bs, bks[k]) ] ]

\* cancel_response ignoring what cancel_booking returned.
cancel_response_always_ok(found) == [ status |-> 200, exc |-> "none" ]

\* The cancel_booking endpoint's answer to what cancel_booking returned.
cancel_response(found) ==
  IF found THEN [ status |-> 200, exc |-> "none" ]
           ELSE [ status |-> 404, exc |-> "HTTPException" ]

\* error_handler without its "except HTTPException: raise" clause.
error_handler_catch_all(r) ==
  IF r.exc = "none"
    THEN r
    ELSE [r EXCEPT !.status = 500, !.exc = "HTTPException"]

\* error_handler: an HTTPException passes through, any other exception
\* becomes a 500.
error_handler(r) ==
  IF r.exc \in {"none", "HTTPException"}
    THEN r
    ELSE [r EXCEPT !.status = 500, !.exc = "HTTPException"]

\* -------------------------------------------------------------- state
VARIABLES
  buses,     \* BusBookingSystem._buses: bus_id -> Bus
  bookings,  \* BusBookingSystem._bookings, in list order
  now,       \* the clock datetime.now() reads, in ticks
  last,      \* Spec: the request handled last and its status, with
             \*   booking_id    the id of the booking it created or deleted,
             \*   avail_before  the seats the requested bus had before a create,
             \*   after_create  a cancel that directly follows a successful
             \*                 create under the same name,
             \*   body          the list a GET request returned
  threads    \* ConcSpec: each worker thread's request, position and locals

vars == << buses, bookings, now, last, threads >>

Threads == 1..NumThreads

NoBooking == << >>

Idle == [ pc |-> "idle", op |-> "none", name |-> << >>, bus_id |-> 0, seats |-> 0,
          i |-> 0, tmp |-> 0, booking |-> NoBooking, status |-> 0 ]

NoRequest == [ op |-> "none", name |-> << >>, bus_id |-> 0, seats |-> 0,
               status |-> 0, booking_id |-> << >>, avail_before |-> 0,
               after_create |-> FALSE, body |-> << >> ]

Init ==
  /\ buses = InitBuses
  /\ bookings = << >>
  /\ now = 0
  /\ last = NoRequest
  /\ threads = [ th \in Threads |-> Idle ]

\* The readings the clock can give to the next caller.
ClockReadings == now..Min(now + 1, MaxNow)

\* ---------------------------------------------- Spec: handlers in sequence
\* POST /bookings: book_ticket, wrapped by error_handler and log_operation.
book_ticket(name, bus_id, seats, t) ==
  LET req == [ name |-> name, bus_id |-> bus_id, seats |-> seats ]
      r   == error_handler(create_booking(buses, bookings, req, t))
  IN  /\ Len(r.bookings) <= MaxBookings
      /\ now' = t
      /\ buses' = r.buses
      /\ bookings' = r.bookings
      /\ last' = [ op |-> "create", name |-> name, bus_id |-> bus_id,
                   seats |-> seats, status |-> r.status,
                   booking_id |-> IF r.status = 200
                                    THEN r.bookings[Len(r.bookings)].booking_id
                                    ELSE << >>,
                   avail_before |-> IF bus_id \in DOMAIN buses
                                      THEN buses[bus_id].available_seats ELSE 0,
                   after_create |-> FALSE, body |-> << >> ]
      /\ UNCHANGED threads

\* DELETE /bookings: the cancel_booking endpoint, wrapped the same way.
cancel_booking_endpoint(name, t) ==
  LET c == cancel_booking(buses, bookings, name)
      r == error_handler(cancel_response(c.found))
  IN  /\ now' = t
      /\ buses' = c.buses
      /\ bookings' = c.bookings
      /\ last' = [ op |-> "cancel", name |-> name, bus_id |-> 0, seats |-> 0,
                   status |-> r.status,
                   booking_id |-> IF c.removed = << >> THEN << >>
                                  ELSE c.removed[1].booking_id,
                   avail_before |-> 0,
                   after_create |-> /\ last.op = "create"
                                    /\ last.status = 200
                                    /\ last.name = name,
                   body |-> << >> ]
      /\ UNCHANGED threads

\* GET /buses: get_buses, wrapped the same way.
get_buses(t) ==
  LET r == get_all_buses(buses, bookings)
  IN  /\ now' = t
      /\ buses' = r.buses
      /\ bookings' = r.bookings
      /\ last' = [ NoRequest EXCEPT !.op = "list_buses",
                     !.status = error_handler([ status |-> 200, exc |-> "none" ]).status,
                     !.body = r.body ]
      /\ UNCHANGED threads

\* GET /bookings: get_bookings, wrapped the same way.
get_bookings(t) ==
  LET r == get_all_bookings(buses, bookings)
  IN  /\ now' = t
      /\ buses' = r.buses
      /\ bookings' = r.bookings
      /\ last' = [ NoRequest EXCEPT !.op = "list_bookings",
                     !.status = error_handler([ status |-> 200, exc |-> "none" ]).status,
                     !.body = r.body ]
      /\ UNCHANGED threads

BookTicket ==
  \E name \in NameChoices, bus_id \in BusIdChoices, seats \in SeatChoices, t \in ClockReadings :
    book_ticket(name, bus_id, seats, t)

CancelBooking ==
  \E name \in NameChoices, t \in ClockReadings :
    cancel_booking_endpoint(name, t)

GetBuses == \E t \in ClockReadings : get_buses(t)

GetBookings == \E t \in ClockReadings : get_bookings(t)

Next == BookTicket \/ CancelBooking \/ GetBuses \/ GetBookings

Spec == Init /\ [][Next]_vars

\* ------------------------- CatalogSpec: the Bus methods called directly
\* Bus.reserve_seats and Bus.release_seats are public methods: here they are
\* called on the catalog's buses with any count, as create_booking and
\* cancel_booking call them with validated ones.  last.body holds the value
\* returned.
WithinDrift(bus) ==
  /\ bus.available_seats >= 0 - MaxDrift
  /\ bus.available_seats <= bus.total_seats + MaxDrift

reserve_call(id, seats) ==
  LET r == reserve_seats(buses[id], seats)
  IN  /\ WithinDrift(r.bus)
      /\ buses' = [buses EXCEPT ![id] = r.bus]
      /\ last' = [ NoRequest EXCEPT !.op = "reserve", !.bus_id = id, !.seats = seats,
                     !.avail_before = buses[id].available_seats,
                     !.body = << r.ok >> ]
      /\ UNCHANGED << bookings, now, threads >>

release_call(id, seats) ==
  LET bus == release_seats(buses[id], seats)
  IN  /\ WithinDrift(bus)
      /\ buses' = [buses EXCEPT ![id] = bus]
      /\ last' = [ NoRequest EXCEPT !.op = "release", !.bus_id = id, !.seats = seats,
                     !.avail_before = buses[id].available_seats ]
      /\ UNCHANGED << bookings, now, threads >>

ReserveCall ==
  \E id \in BusIdChoices \cap DOMAIN buses, seats \in DirectSeatChoices :
    reserve_call(id, seats)

ReleaseCall ==
  \E id \in BusIdChoices \cap DOMAIN buses, seats \in DirectSeatChoices :
    release_call(id, seats)

CatalogNext == ReserveCall \/ ReleaseCall

CatalogSpec == Init /\ [][CatalogNext]_vars

\* ------------------------------ ConcSpec: handlers on worker threads
\* book_ticket and the cancel_booking endpoint are plain functions, which the
\* server runs on worker threads: nothing orders one thread's steps against
\* another's.  Each thread serves one request; the locals of its call are
\*   i        the index of cancel_booking's enumerate loop (1-based)
\*   booking  the Booking the loop holds
\*   tmp      available_seats as read by an assignment not yet stored

Goto(th, pc) == [threads EXCEPT ![th].pc = pc]

Finish(th, status) == [threads EXCEPT ![th].pc = "done", ![th].status = status]

\* book_ticket is called; create_booking looks the bus up and raises 404
\* when get_bus returns None.
c_get_bus(th, name, bus_id, seats) ==
  /\ threads[th].pc = "idle"
  /\ LET call == [threads[th] EXCEPT !.op = "create", !.name = name,
                                      !.bus_id = bus_id, !.seats = seats]
     IN  threads' =
           [threads EXCEPT ![th] =
              IF get_bus(buses, bus_id) = None
                THEN [call EXCEPT !.pc = "done",
                        !.status = error_handler([ status |-> 404,
                                                   exc |-> "HTTPException" ]).status]
                ELSE [call EXCEPT !.pc = "reserve_test"]]
  /\ UNCHANGED << buses, bookings, now, last >>

\* reserve_seats: the test seats <= self._available_seats; on failure
\* create_booking raises 400.
c_reserve_test(th) ==
  /\ threads[th].pc = "reserve_test"
  /\ threads' =
       IF threads[th].seats <= buses[threads[th].bus_id].available_seats
         THEN Goto(th, "reserve_load")
         ELSE Finish(th, error_handler([ status |-> 400, exc |-> "HTTPException" ]).status)
  /\ UNCHANGED << buses, bookings, now, last >>

\* reserve_seats: self._available_seats -= seats reads the attribute ...
c_reserve_load(th) ==
  /\ threads[th].pc = "reserve_load"
  /\ threads' = [threads EXCEPT ![th].pc = "reserve_store",
                                ![th].tmp = buses[threads[th].bus_id].available_seats]
  /\ UNCHANGED << buses, bookings, now, last >>

\* ... and stores the difference.
c_reserve_store(th) ==
  /\ threads[th].pc = "reserve_store"
  /\ buses' = [buses EXCEPT ![threads[th].bus_id].available_seats =
                              threads[th].tmp - threads[th].seats]
  /\ threads' = [threads EXCEPT ![th].pc = "append", ![th].tmp = 0]
  /\ UNCHANGED << bookings, now, last >>

\* create_booking builds the Booking at clock reading t, appends it and
\* returns.
c_append(th, t) ==
  /\ threads[th].pc = "append"
  /\ now' = t
  /\ bookings' = Append(bookings, Booking(threads[th].name, buses[threads[th].bus_id],
                                          threads[th].seats, t))
  /\ threads' = Finish(th, 200)
  /\ UNCHANGED << buses, last >>

\* The cancel_booking endpoint is called; cancel_booking starts its loop.
k_begin(th, name) ==
  /\ threads[th].pc = "idle"
  /\ threads' = [threads EXCEPT ![th].op = "cancel", ![th].name = name,
                                ![th].i = 1, ![th].pc = "scan"]
  /\ UNCHANGED << buses, bookings, now, last >>

\* One turn of the loop: the list iterator ends the loop when the index has
\* passed the end of the list (cancel_booking returns False, the endpoint
\* raises 404), else it yields the element now at that index.
k_scan(th) ==
  /\ threads[th].pc = "scan"
  /\ LET i == threads[th].i IN
     threads' =
       IF i > Len(bookings)
         THEN Finish(th, error_handler(cancel_response(FALSE)).status)
         ELSE IF lower(bookings[i].name) = lower(threads[th].name)
                THEN [threads EXCEPT ![th].pc = "release_load",
                                     ![th].booking = bookings[i]]
                ELSE [threads EXCEPT ![th].i = i + 1]
  /\ UNCHANGED << buses, bookings, now, last >>

\* release_seats: the right-hand side reads self._available_seats ...
k_release_load(th) ==
  /\ threads[th].pc = "release_load"
  /\ threads' = [threads EXCEPT ![th].pc = "release_store",
                                ![th].tmp = buses[threads[th].booking.bus].available_seats]
  /\ UNCHANGED << buses, bookings, now, last >>

\* ... and the assignment stores the minimum.
k_release_store(th) ==
  /\ threads[th].pc = "release_store"
  /\ LET b == threads[th].booking IN
     buses' = [buses EXCEPT ![b.bus].available_seats =
                 Min(threads[th].tmp + b.seats, buses[b.bus].total_seats)]
  /\ threads' = [threads EXCEPT ![th].pc = "delete", ![th].tmp = 0]
  /\ UNCHANGED << bookings, now, last >>

\* del self._bookings[i]: deletes whatever is at index i now; an index past
\* the end raises IndexError, which error_handler turns into a 500.
k_delete(th) ==
  /\ threads[th].pc = "delete"
  /\ LET i == threads[th].i IN
     IF i > Len(bookings)
       THEN /\ bookings' = bookings
            /\ threads' = Finish(th, error_handler([ status |-> 0,
                                                     exc |-> "IndexError" ]).status)
       ELSE /\ bookings' = RemoveAt(bookings, i)
            /\ threads' = Finish(th, error_handler(cancel_response(TRUE)).status)
  /\ UNCHANGED << buses, now, last >>

ConcNext ==
  \E th \in Threads :
    \/ \E name \in NameChoices, bus_id \in BusIdChoices, seats \in SeatChoices :
         c_get_bus(th, name, bus_id, seats)
    \/ c_reserve_test(th)
    \/ c_reserve_load(th)
    \/ c_reserve_store(th)
    \/ \E t \in ClockReadings : c_append(th, t)
    \/ \E name \in NameChoices : k_begin(th, name)
    \/ k_scan(th)
    \/ k_release_load(th)
    \/ k_release_store(th)
    \/ k_delete(th)

ConcSpec == Init /\ [][ConcNext]_vars

\* ------------------------------------------------------- properties
\* Two names are equal ignoring letter case (compared in upper case).
Upper(c) == IF c \in 97..122 THEN c - 32 ELSE c

SameNameIgnoringCase(a, b) ==
  /\ Len(a) = Len(b)
  /\ \A k \in 1..Len(a) : Upper(a[k]) = Upper(b[k])

\* The ledger positions whose passenger name is `name`, ignoring case.
MatchesOf(bks, name) == { k \in 1..Len(bks) : SameNameIgnoringCase(bks[k].name, name) }

RECURSIVE SeatsBookedOn(_, _)
SeatsBookedOn(bks, id) ==
  IF bks = << >> THEN 0
  ELSE (IF Head(bks).bus = id THEN Head(bks).seats ELSE 0) + SeatsBookedOn(Tail(bks), id)

\* C1: after any sequence of createBooking and cancelBooking calls every
\* route has 0 <= availableSeats <= totalSeats.
C1_SeatsWithinCapacity ==
  \A id \in DOMAIN buses :
    /\ 0 <= buses[id].available_seats
    /\ buses[id].available_seats <= buses[id].total_seats

\* A route is sold out by two bookings (the lower end of the range) while
\* another route is untouched (the upper end).
C1_Witness ==
  /\ last.op = "create" /\ last.status = 200
  /\ Len(bookings) = 2
  /\ \E id \in DOMAIN buses : buses[id].available_seats = 0
  /\ \E id \in DOMAIN buses : buses[id].available_seats = buses[id].total_seats

\* C2: after any sequence of createBooking and cancelBooking calls, every
\* route's availableSeats is its totalSeats minus the seats of the ledger's
\* bookings on that route.
C2_SeatsConserved ==
  \A id \in DOMAIN buses :
    buses[id].available_seats = buses[id].total_seats - SeatsBookedOn(bookings, id)

\* A cancellation has happened and a booking is still held against a route.
C2_Witness ==
  /\ last.op = "cancel" /\ last.status = 200
  /\ \E id \in DOMAIN buses : SeatsBookedOn(bookings, id) > 0

\* C3: with createBooking and cancelBooking requests in flight at once, no
\* interleaving of their steps reserves more seats than a route had:
\* availableSeats never becomes negative, as under every serial order.
C3_NeverOverbooked ==
  \A id \in DOMAIN buses : buses[id].available_seats >= 0

\* C4 as stated: a successful createBooking(name, routeId, seats) directly
\* followed by cancelBooking(name) leaves routeId's availableSeats at its
\* value before the createBooking, whatever else the ledger holds.
C4_RoundTripAnyLedger ==
  [][ ( /\ last.op = "create" /\ last.status = 200
        /\ last'.op = "cancel" /\ last'.name = last.name )
      => buses'[last.bus_id].available_seats = last.avail_before ]_vars

\* C4 amended: the round trip restores routeId's availableSeats when no
\* booking already in the ledger before the createBooking has that name
\* (ignoring case).
C4_RoundTrip ==
  [][ ( /\ last.op = "create" /\ last.status = 200
        /\ last'.op = "cancel" /\ last'.name = last.name
        /\ MatchesOf(SubSeq(bookings, 1, Len(bookings) - 1), last.name) = {} )
      => buses'[last.bus_id].available_seats = last.avail_before ]_vars

\* A cancel directly after a create of the same name has removed the new
\* booking, with a booking under another name left in the ledger.
C4_Witness ==
  /\ last.op = "cancel" /\ last.status = 200 /\ last.after_create
  /\ bookings # << >>
  /\ MatchesOf(bookings, last.name) = {}

\* C5: createBooking asking for more seats than the route has available is
\* answered 400 (InsufficientSeats) and changes neither the buses nor the
\* ledger.
C5_InsufficientSeatsNoChange ==
  [][ ( /\ last'.op = "create"
        /\ last'.bus_id \in DOMAIN buses
        /\ last'.seats > buses[last'.bus_id].available_seats )
      => ( /\ last'.status = 400
           /\ buses' = buses
           /\ bookings' = bookings ) ]_vars

\* A create was refused for lack of seats on a route that still had some.
C5_Witness ==
  /\ last.op = "create" /\ last.status = 400
  /\ buses[last.bus_id].available_seats > 0
  /\ last.seats > buses[last.bus_id].available_seats

\* C6: createBooking for a bus id that is not in the catalog is answered 404
\* (RouteNotFound) and changes neither the ledger nor any route's seats.
C6_UnknownRouteNoChange ==
  [][ ( /\ last'.op = "create"
        /\ last'.bus_id \notin DOMAIN buses )
      => ( /\ last'.status = 404
           /\ buses' = buses
           /\ bookings' = bookings ) ]_vars

\* A create for an unknown bus id was refused while the ledger held bookings.
C6_Witness ==
  /\ last.op = "create" /\ last.status = 404
  /\ last.bus_id \notin DOMAIN buses
  /\ bookings # << >>

\* C7: cancelBooking(name) with a booking under that name (ignoring case)
\* removes the earliest such booking and no other, and gives that booking's
\* seats back to that booking's route only.
C7_CancelsFirstMatchOnly ==
  [][ ( /\ last'.op = "cancel"
        /\ MatchesOf(bookings, last'.name) # {} )
      => LET hits == MatchesOf(bookings, last'.name)
             i    == CHOOSE k \in hits : \A j \in hits : k <= j
             b    == bookings[i]
         IN  /\ last'.status = 200
             /\ Len(bookings') = Len(bookings) - 1
             /\ \A k \in 1..Len(bookings') :
                  bookings'[k] = IF k < i THEN bookings[k] ELSE bookings[k + 1]
             /\ \A id \in DOMAIN buses :
                  buses'[id].available_seats =
                    buses[id].available_seats + (IF id = b.bus THEN b.seats ELSE 0) ]_vars

\* A cancel succeeded and a later booking under the same name, differently
\* cased, is still in the ledger.
C7_Witness ==
  /\ last.op = "cancel" /\ last.status = 200
  /\ \E k \in MatchesOf(bookings, last.name) : bookings[k].name # last.name

\* C8: cancelBooking(name) with no booking under that name (ignoring case)
\* is answered 404 (BookingNotFound) and changes neither the ledger nor the
\* buses.
C8_NoMatchNoChange ==
  [][ ( /\ last'.op = "cancel"
        /\ MatchesOf(bookings, last'.name) = {} )
      => ( /\ last'.status = 404
           /\ bookings' = bookings
           /\ buses' = buses ) ]_vars

\* A cancel found nothing in a ledger that holds bookings under other names.
C8_Witness ==
  /\ last.op = "cancel" /\ last.status = 404
  /\ Len(bookings) = 2

\* C9: no two bookings in the ledger have the same bookingId.
C9_BookingIdsUnique ==
  \A i, j \in 1..Len(bookings) :
    i # j => bookings[i].booking_id # bookings[j].booking_id

\* C10: a cancelled booking's bookingId is not given to a booking created
\* afterwards (here: by the createBooking that directly follows the
\* cancellation).
C10_CancelledIdNotReused ==
  [][ ( /\ last.op = "cancel" /\ last.status = 200
        /\ last'.op = "create" /\ last'.status = 200 )
      => last'.booking_id # last.booking_id ]_vars

\* C11: a successful createBooking(name, routeId, seats) takes exactly seats
\* from the route, appends exactly one booking whose totalFare is seats times
\* the route's fare, and no step changes the seats or totalFare of a booking
\* that stays in the ledger (a step appends one entry, removes one entry or
\* leaves the ledger as it is).
C11_CreateEffectAndFrozenFare ==
  [][ /\ ( last'.op = "create" /\ last'.status = 200 )
         => LET id == last'.bus_id
                n  == Len(bookings)
            IN  /\ buses'[id].available_seats = buses[id].available_seats - last'.seats
                /\ Len(bookings') = n + 1
                /\ SubSeq(bookings', 1, n) = bookings
                /\ bookings'[n + 1].name = last'.name
                /\ bookings'[n + 1].bus = id
                /\ bookings'[n + 1].seats = last'.seats
                /\ bookings'[n + 1].total_fare = last'.seats * buses[id].fare
      /\ \/ bookings' = bookings
         \/ /\ Len(bookings') = Len(bookings) + 1
            /\ SubSeq(bookings', 1, Len(bookings)) = bookings
         \/ \E i \in 1..Len(bookings) :
              /\ Len(bookings') = Len(bookings) - 1
              /\ \A k \in 1..Len(bookings') :
                   bookings'[k] = IF k < i THEN bookings[k] ELSE bookings[k + 1] ]_vars

\* Alice's scenario: 5 seats on bus 1 (fare 500) cost 2500 and leave 25; the
\* booking is unchanged after a later booking on the same bus.
C11_Witness ==
  /\ last.op = "create" /\ last.status = 200
  /\ Len(bookings) = 2
  /\ bookings[1].bus = 1 /\ bookings[1].seats = 5 /\ bookings[1].total_fare = 2500
  /\ bookings[2].bus = 1 /\ bookings[2].seats = 25 /\ bookings[2].total_fare = 12500
  /\ buses[1].available_seats = 0

\* C12: listRoutes and listBookings change neither any route's
\* availableSeats nor the ledger, and either one called twice in a row
\* returns the same list both times.
C12_ListsHaveNoEffect ==
  [][ /\ last'.op \in {"list_buses", "list_bookings"}
         => ( buses' = buses /\ bookings' = bookings /\ last'.status = 200 )
      /\ ( last.op \in {"list_buses", "list_bookings"} /\ last'.op = last.op )
         => last'.body = last.body ]_vars

\* The bookings were listed with two bookings in the ledger.
C12_Witness ==
  /\ last.op = "list_bookings"
  /\ Len(last.body) = 2
  /\ Len(bookings) = 2
  /\ \E id \in DOMAIN buses : buses[id].available_seats < buses[id].total_seats

\* C13: the catalog is static: the bus ids are always the three seeded ones,
\* and every bus keeps its id, route, time, fare and total seats; a step
\* changes nothing of a bus but its available seats.
C13_CatalogStatic ==
  [][ /\ DOMAIN buses' = {1, 2, 3}
      /\ \A id \in DOMAIN buses' :
           /\ buses'[id].bus_id = id
           /\ [buses'[id] EXCEPT !.available_seats = 0]
                = [buses[id] EXCEPT !.available_seats = 0]
           /\ buses'[id].total_seats = 30
           /\ buses'[id].fare = CASE id = 1 -> 500 [] id = 2 -> 700 [] id = 3 -> 600 ]_vars

\* One of two bookings was cancelled again; the other still holds its seats.
C13_Witness ==
  /\ last.op = "cancel" /\ last.status = 200
  /\ Len(bookings) = 1
  /\ buses[bookings[1].bus].available_seats < 30
  /\ last.name # bookings[1].name

\* C14: every failure reaches the caller as its own kind: an unknown bus as
\* 404, too few seats as 400, no booking under the name as 404, and a request
\* that does not fail as 200; error_handler hands an HTTPException on as it
\* is and turns any other exception, and only those, into a 500.
C14_FailuresKeepTheirKind ==
  [][ /\ last'.op = "create" =>
           last'.status =
             IF last'.bus_id \notin DOMAIN buses THEN 404
             ELSE IF last'.seats > buses[last'.bus_id].available_seats THEN 400
             ELSE 200
      /\ last'.op = "cancel" =>
           last'.status = IF MatchesOf(bookings, last'.name) = {} THEN 404 ELSE 200
      /\ last'.op \in {"list_buses", "list_bookings"} => last'.status = 200
      /\ \A st \in {200, 400, 404}, exc \in {"none", "HTTPException", "IndexError", "TypeError"} :
           LET r == [ status |-> st, exc |-> exc ] IN
           IF exc \in {"IndexError", "TypeError"}
             THEN error_handler(r).status = 500
             ELSE error_handler(r) = r ]_vars

\* A create was refused for lack of seats with two bookings in the ledger.
C14_Witness ==
  /\ last.op = "create" /\ last.status = 400
  /\ last.bus_id \in DOMAIN buses
  /\ Len(bookings) = 2

\* C15: reserveSeats(id, count) takes count seats and reports success when
\* count is positive and at most the seats available, and otherwise rejects
\* the call, count <= 0 included, and leaves the seats as they are.
C15_ReserveRejectsNonPositive ==
  [][ last'.op = "reserve" =>
        LET id == last'.bus_id
            a  == buses[id].available_seats
        IN  IF last'.seats > 0 /\ last'.seats <= a
              THEN /\ last'.body = << TRUE >>
                   /\ buses'[id].available_seats = a - last'.seats
              ELSE /\ last'.body = << FALSE >>
                   /\ buses'[id].available_seats = a ]_vars

\* C16: releaseSeats(id, count) with count >= 0 sets availableSeats to the
\* smaller of availableSeats + count and totalSeats, on that bus only, so
\* that no release, a repeated one included, leaves more seats available
\* than the bus has.
C16_ReleaseClamped ==
  [][ ( last'.op = "release" /\ last'.seats >= 0 ) =>
        LET id  == last'.bus_id
            sum == buses[id].available_seats + last'.seats
        IN  /\ buses'[id].available_seats =
                 IF sum <= buses[id].total_seats THEN sum ELSE buses[id].total_seats
            /\ buses'[id].available_seats <= buses[id].total_seats
            /\ \A other \in DOMAIN buses : other # id => buses'[other] = buses[other] ]_vars

\* 25 seats were released on a bus that had every seat available already,
\* as a second release of the same seats does: the bus stays at its total.
C16_Witness ==
  /\ last.op = "release" /\ last.seats = 25
  /\ last.avail_before = buses[last.bus_id].total_seats
  /\ buses[last.bus_id].available_seats = buses[last.bus_id].total_seats

C18_CancelDeletesItsMatch ==
  [][ \A th \in Threads :
        ( threads[th].pc = "delete" /\ threads'[th].pc = "done" )
        => /\ threads[th].i <= Len(bookings)
           /\ bookings[threads[th].i] = threads[th].booking
           /\ threads'[th].status = 200 ]_vars

\* C19: a successful createBooking(name, routeId, seats) changes the
\* availableSeats of routeId and of no other route, and a successful
\* cancelBooking changes the availableSeats of the removed booking's route
\* and of no other route.
C19_OneRouteTouched ==
  [][ /\ ( last'.op = "create" /\ last'.status = 200 )
         => \A id \in DOMAIN buses :
              (buses'[id].available_seats # buses[id].available_seats)
                <=> (id = last'.bus_id)
      /\ ( last'.op = "cancel" /\ last'.status = 200 )
         => LET hits == MatchesOf(bookings, last'.name)
                i    == CHOOSE k \in hits : \A j \in hits : k <= j
            IN  \A id \in DOMAIN buses :
                  (buses'[id].available_seats # buses[id].available_seats)
                    <=> (id = bookings[i].bus) ]_vars

\* One of two bookings was cancelled: the bus of the booking that stays
\* keeps its seats taken, another bus has all its seats available.
C19_Witness ==
  /\ last.op = "cancel" /\ last.status = 200
  /\ Len(bookings) = 1
  /\ buses[bookings[1].bus].available_seats < buses[bookings[1].bus].total_seats
  /\ \E id \in DOMAIN buses :
       /\ id # bookings[1].bus
       /\ buses[id].available_seats = buses[id].total_seats
       /\ id \in BusIdChoices

=============================================================================
